---------------------------- MODULE Spec2Model ----------------------------
(***************************************************************************)
(* The ASCII globe renderer of velocity: texture loading, the GlobeRenderer *)
(* state object (rotation offset, scale, speed, tilt, lighting) and the    *)
(* per-pixel ray caster Camera::render_sphere.                             *)
(*                                                                         *)
(* f64 values are modelled in fixed point: the integer v stands for the    *)
(* real v / ONE.  The non-finite results the code can produce (0.0 / 0.0,  *)
(* x / 0.0) are modelled explicitly where the code divides by a value that *)
(* can be zero (the sphere radius).  Characters are one-character strings, *)
(* a texture is a sequence of rows, a row a sequence of characters.        *)
(*                                                                         *)
(* The terminal UI is modelled by its key handling: App::handle_key, the   *)
(* recent-files store it reads and writes, and the launcher it calls.      *)
(* Next to it: the history queues of SystemStats, the GlobeComponent and   *)
(* the views that draw it, and the slot positions of the curved menu.      *)
(***************************************************************************)
EXTENDS Integers, Sequences, FiniteSets, TLC

VARIABLES
    dir,            \* the texture directory on disk: [earth, night] files
    status,         \* "none" before GlobeRenderer::new, then "ok" or "err"
    error,          \* the anyhow error chain of a failed new (messages)
    earth,          \* GlobeRenderer.earth
    earth_night,    \* GlobeRenderer.earth_night
    angle_offset,   \* GlobeRenderer.angle_offset (radians, fixed point)
    scale,          \* GlobeRenderer.scale
    speed,          \* GlobeRenderer.speed
    tilt,           \* GlobeRenderer.tilt (degrees)
    lighting,       \* GlobeRenderer.lighting
    canvas,         \* the caller's grid after the last render_frame call
    call,           \* the arguments of render_frame while it is the last
                    \* operation on the renderer, NoCall otherwise
    px,             \* what render_sphere computed for each pixel of that call
    prev,           \* the grid the call before produced, while the last two
                    \* operations are render_frame calls with the same
                    \* arguments; <<>> otherwise
    vin,            \* a Vec3 handed to math::normalize
    vout,           \* what normalize returned for it, <<>> before the call
    state,          \* App.state
    apps,           \* App.config.apps, the names of the entries
    files,          \* the recent-files store on disk: paths, newest first
    app_selection,  \* App.app_selection
    recent_selection,    \* App.recent_selection: <<>> for None, <<i>> for Some(i)
    settings_selection,  \* App.settings_selection, likewise
    should_quit,    \* App.should_quit
    launched,       \* what the last handle_key call asked the launcher for
    failed,         \* a handle_key call has returned Err: main has returned
    stats,          \* App.system_stats: the SystemStats object
    disks,          \* how many disks the machine lists (sysinfo::Disks)
    area,           \* the Rect handed to calculate_curve_positions
    positions       \* what it returned for that area, <<>> before the call

vars == <<dir, status, error, earth, earth_night, angle_offset, scale, speed,
          tilt, lighting, canvas, call, px, prev, vin, vout, state, apps,
          files, app_selection, recent_selection, settings_selection,
          should_quit, launched, failed, stats, disks, area, positions>>

globe   == <<earth, earth_night, angle_offset, scale, speed, tilt, lighting>>
frame   == <<canvas, call, px, prev>>

\* The App of the terminal UI and the recent-files store.
ui == <<state, apps, files, app_selection, recent_selection,
        settings_selection, should_quit, launched, failed>>

\* The variables that are not part of the renderer and its caller's grid.
\* The curved menu: calculate_curve_positions, its argument and result.
menu == <<area, positions>>

\* The dashboard next to the globe: the system statistics and the menu.
dashboard == <<stats, disks, menu>>

outside == <<vin, vout, ui, dashboard>>

\* The renderer and its caller's grid.
rendering == <<dir, status, error, globe, frame>>

-----------------------------------------------------------------------------
(* Fixed-point arithmetic standing for f64.                                *)

ONE == 1000

Abs(x) == IF x < 0 THEN -x ELSE x

Max(a, b) == IF a >= b THEN a ELSE b

Min(a, b) == IF a <= b THEN a ELSE b

\* a / b rounded to the nearest integer, b # 0.
RDiv(a, b) ==
    LET n == Abs(a)
        d == Abs(b)
        q == n \div d
        r == n % d
        m == IF 2 * r >= d THEN q + 1 ELSE q
    IN  IF (a < 0) = (b < 0) THEN m ELSE -m

Mul(a, b) == RDiv(a * b, ONE)

Div(a, b) == RDiv(a * ONE, b)

RECURSIVE ISqrtBetween(_, _, _)
ISqrtBetween(n, lo, hi) ==
    IF hi - lo <= 1 THEN lo
    ELSE LET mid == (lo + hi) \div 2
         IN  IF mid * mid <= n THEN ISqrtBetween(n, mid, hi)
                               ELSE ISqrtBetween(n, lo, mid)

\* The integer nearest to the square root of n, 0 <= n < 2^31.
ISqrt(n) ==
    LET r == ISqrtBetween(n, 0, 46341)
    IN  IF n - r * r > r THEN r + 1 ELSE r

\* f64::sqrt of a fixed-point value.
Sqrt(a) == ISqrt(a * ONE)

\* `x as i32` / `x as usize` of a finite f64: truncation toward zero.
Trunc(a) == IF a >= 0 THEN a \div ONE ELSE -((-a) \div ONE)

\* f64::floor.
Floor(a) == a \div ONE

\* Non-finite f64 values, where the code can produce them.
Fin(v) == [cls |-> "fin", v |-> v]

NaN == [cls |-> "nan", v |-> 0]

Inf(s) == [cls |-> "inf", v |-> s]

\* a / b in f64 for finite a, b: x / 0.0 is +-inf, 0.0 / 0.0 is NaN.
FloatDiv(a, b) ==
    IF b # 0 THEN Fin(Div(a, b))
    ELSE IF a = 0 THEN NaN
    ELSE Inf(IF a > 0 THEN 1 ELSE -1)

\* f / 2.0 + 0.5
FloatHalfPlusHalf(f) ==
    IF f.cls = "fin" THEN Fin(RDiv(f.v, 2) + ONE \div 2) ELSE f

\* f * (n as f64) for an integer n >= 0: inf * 0.0 is NaN.
FloatTimes(f, n) ==
    IF f.cls = "fin" THEN Fin(f.v * n)
    ELSE IF f.cls = "inf" /\ n # 0 THEN f
    ELSE NaN

I32_MAX == 2147483647

\* `f as i32`: truncating, saturating, NaN becomes 0.
AsI32(f) ==
    IF f.cls = "fin" THEN Trunc(f.v)
    ELSE IF f.cls = "nan" THEN 0
    ELSE IF f.v > 0 THEN I32_MAX ELSE -I32_MAX - 1

\* `x as usize` of a finite f64: truncating, negative values saturate to 0.
AsUsize(a) == IF a <= 0 THEN 0 ELSE a \div ONE

-----------------------------------------------------------------------------
(* math.rs                                                                 *)

PI_CONST == 3142

\* f64::sin and f64::cos by their Taylor polynomials, the argument reduced
\* to [-PI, PI] and reflected into [-PI/2, PI/2].
SinSmall(x) ==
    LET x2 == Mul(x, x)
        x3 == Mul(x2, x)
        x5 == Mul(x3, x2)
        x7 == Mul(x5, x2)
    IN  x - RDiv(x3, 6) + RDiv(x5, 120) - RDiv(x7, 5040)

Wrap(x) == ((x + PI_CONST) % (2 * PI_CONST)) - PI_CONST

Sin(x) ==
    LET w == Wrap(x)
    IN  IF w > PI_CONST \div 2 THEN SinSmall(PI_CONST - w)
        ELSE IF w < -(PI_CONST \div 2) THEN SinSmall(-PI_CONST - w)
        ELSE SinSmall(w)

Cos(x) == Sin(x + PI_CONST \div 2)

\* f64::atan on [0, 1]: z * (PI/4 + 0.273 * (1 - z)), within 0.004 rad.
AtanUnit(z) == Mul(z, PI_CONST \div 4 + Mul(273, ONE - z))

\* f64::atan2(y, x); atan2(0, 0) is 0.
Atan2(y, x) ==
    IF x = 0 /\ y = 0 THEN 0
    ELSE LET ax == Abs(x)
             ay == Abs(y)
             a  == IF ax >= ay THEN AtanUnit(Div(ay, ax))
                   ELSE PI_CONST \div 2 - AtanUnit(Div(ax, ay))
             q  == IF x < 0 THEN PI_CONST - a ELSE a
         IN  IF y < 0 THEN -q ELSE q

\* f64::to_radians
ToRadians(deg) == RDiv(deg * PI_CONST, 180 * ONE)

\* The factor by which a vector is scaled down before it is squared, so that
\* the squares stay in range (as a hypot does): 1 for every vector of the
\* scene but the one to the distant light.
Downscale(r) == Max(Max(Abs(r[1]), Abs(r[2])), Abs(r[3])) \div 16384 + 1

magnitude(r) ==
    LET k == Downscale(r)
        a == RDiv(r[1], k)
        b == RDiv(r[2], k)
        c == RDiv(r[3], k)
    IN  ISqrt(a * a + b * b + c * c) * k

\* normalize returning the X axis for a vector of magnitude zero.
normalizeOrAxis(r) ==
    LET k   == Downscale(r)
        mag == magnitude(r)
    IN  IF mag = 0 THEN <<ONE, 0, 0>>
        ELSE << Div(RDiv(r[1], k), mag \div k),
                Div(RDiv(r[2], k), mag \div k),
                Div(RDiv(r[3], k), mag \div k) >>

normalize(r) ==
    LET k   == Downscale(r)
        mag == magnitude(r)
    IN  IF mag = 0 THEN r
        ELSE << Div(RDiv(r[1], k), mag \div k),
                Div(RDiv(r[2], k), mag \div k),
                Div(RDiv(r[3], k), mag \div k) >>

dot(a, b) == Mul(a[1], b[1]) + Mul(a[2], b[2]) + Mul(a[3], b[3])

vector(b, c) == <<b[1] - c[1], b[2] - c[2], b[3] - c[3]>>

\* m is the 4x4 row-major matrix m[1..16] (the code's m[0..15]).
transform_vector(vec, m) ==
    << Mul(vec[1], m[1]) + Mul(vec[2], m[5]) + Mul(vec[3], m[9])  + m[13],
       Mul(vec[1], m[2]) + Mul(vec[2], m[6]) + Mul(vec[3], m[10]) + m[14],
       Mul(vec[1], m[3]) + Mul(vec[2], m[7]) + Mul(vec[3], m[11]) + m[15] >>

transform_vector_2(vec, m) ==
    << Mul(m[1], vec[1]) + Mul(m[2], vec[2]) + Mul(m[3], vec[3]),
       Mul(m[4], vec[1]) + Mul(m[5], vec[2]) + Mul(m[6], vec[3]),
       Mul(m[7], vec[1]) + Mul(m[8], vec[2]) + Mul(m[9], vec[3]) >>

rotate_x(vec, theta) ==
    LET a == Sin(theta)
        b == Cos(theta)
    IN  transform_vector_2(vec, <<ONE, 0, 0,  0, b, -a,  0, a, b>>)

clamp(x, min_val, max_val) == Min(Max(x, min_val), max_val)

clamp_int(x, min_val, max_val) == Min(Max(x, min_val), max_val)

-----------------------------------------------------------------------------
(* camera.rs                                                               *)

PALETTE ==
    <<" ", ".", ":", ";", "'", ",", "w", "i", "o", "g", "O", "L", "X", "H",
      "W", "Y", "V", "@">>

\* Camera::new(r, alfa, beta)
CameraNew(r, alfa, beta) ==
    LET a == Sin(alfa)
        b == Cos(alfa)
        c == Sin(beta)
        d == Cos(beta)
        x == Mul(Mul(r, b), d)
        y == Mul(Mul(r, a), d)
        z == Mul(r, c)
    IN  [x |-> x, y |-> y, z |-> z,
         matrix |-> << -a, b, 0, 0,
                       Mul(b, c), Mul(a, c), -d, 0,
                       Mul(b, d), Mul(a, d), c, 0,
                       x, y, z, ONE >>]

\* find_index(c, s): the position of c in s counted from 0, or -1.
find_index(c, s) ==
    IF \E i \in 1..Len(s) : s[i] = c
    THEN (CHOOSE i \in 1..Len(s) : s[i] = c /\ \A j \in 1..(i - 1) : s[j] # c) - 1
    ELSE -1

\* TexelAt with the bounds check dropped: reading past the end of a row or of
\* the texture yields some character.
TexelAtUnchecked(tex, y, x) ==
    IF y + 1 \in DOMAIN tex /\ x + 1 \in DOMAIN tex[y + 1]
    THEN <<tex[y + 1][x + 1]>>
    ELSE <<" ">>

\* tex.get(y).and_then(|row| row.get(x)): <<c>> for Some(c), <<>> for None.
TexelAt(tex, y, x) ==
    IF y + 1 \in DOMAIN tex /\ x + 1 \in DOMAIN tex[y + 1]
    THEN <<tex[y + 1][x + 1]>>
    ELSE <<>>

\* The position of the distant light: [0.0, 999999.0, 0.0].
LIGHT_Y == 999999

\* What the body of render_sphere's loop computes for the pixel (xi, yi),
\* counted from 0.  hit: discriminant >= 0.  sampled: both texel lookups are
\* Some.  day, night: find_index of the texels (-1 when there is none).
\* blend: the blended index before the cast.  draw: draw_point is called
\* with the character c.
NoPixel ==
    [hit |-> FALSE, earth_x |-> 0, earth_y |-> 0, luminance |-> 0,
     sampled |-> FALSE, day |-> -1, night |-> -1, blend |-> 0, index |-> 0,
     draw |-> FALSE, c |-> " "]

\* index = ((1.0 - luminance) * night as f64 + luminance * day as f64)
BlendValue(luminance, night, day) ==
    Mul(ONE - luminance, night * ONE) + Mul(luminance, day * ONE)

\* ... as usize, then clamp_int(index as i32, 0, PALETTE.len() - 1)
BlendIndex(blend) == clamp_int(AsUsize(blend), 0, Len(PALETTE) - 1)

\* Plot taking the character one place further along the palette, and '?'
\* where there is none.
PlotNext(earth_x, earth_y, luminance, day, night, blend, index) ==
    [hit |-> TRUE, earth_x |-> earth_x, earth_y |-> earth_y,
     luminance |-> luminance, sampled |-> TRUE, day |-> day, night |-> night,
     blend |-> blend, index |-> index, draw |-> TRUE,
     c |-> IF index + 2 \in DOMAIN PALETTE THEN PALETTE[index + 2] ELSE "?"]

\* draw_point(.., PALETTE.chars().nth(index).unwrap_or(' '), ..)
Plot(earth_x, earth_y, luminance, day, night, blend, index) ==
    [hit |-> TRUE, earth_x |-> earth_x, earth_y |-> earth_y,
     luminance |-> luminance, sampled |-> TRUE, day |-> day, night |-> night,
     blend |-> blend, index |-> index, draw |-> TRUE,
     c |-> IF index + 1 \in DOMAIN PALETTE THEN PALETTE[index + 1] ELSE " "]

\* A hit pixel for which draw_point is not called.
Skip(earth_x, earth_y, luminance, sampled, day, night) ==
    [hit |-> TRUE, earth_x |-> earth_x, earth_y |-> earth_y,
     luminance |-> luminance, sampled |-> sampled, day |-> day,
     night |-> night, blend |-> 0, index |-> 0, draw |-> FALSE, c |-> " "]

\* Blend with `||` in place of `&&`.
BlendEither(earth_x, earth_y, luminance, day, night, blend) ==
    IF day >= 0 \/ night >= 0
    THEN Plot(earth_x, earth_y, luminance, day, night, blend,
              BlendIndex(blend))
    ELSE Skip(earth_x, earth_y, luminance, TRUE, day, night)

\* if day >= 0 && night >= 0 { .. }
Blend(earth_x, earth_y, luminance, day, night, blend) ==
    IF day >= 0 /\ night >= 0
    THEN Plot(earth_x, earth_y, luminance, day, night, blend,
              BlendIndex(blend))
    ELSE Skip(earth_x, earth_y, luminance, TRUE, day, night)

\* if let (Some(day_char), Some(night_char)) = (..) { .. }
Lookup(day_char, night_char, earth_x, earth_y, luminance, day, night) ==
    IF day_char # <<>> /\ night_char # <<>>
    THEN Blend(earth_x, earth_y, luminance, day, night,
               BlendValue(luminance, night, day))
    ELSE Skip(earth_x, earth_y, luminance, FALSE, -1, -1)

\* find_index of an Option<char>, -1 for None
IndexOf(char) == IF char = <<>> THEN -1 ELSE find_index(char[1], PALETTE)

Sampled(day_char, night_char, earth_x, earth_y, luminance) ==
    Lookup(day_char, night_char, earth_x, earth_y, luminance,
           IndexOf(day_char), IndexOf(night_char))

\* The two texel lookups and what follows them.
Sample(day_tex, night_tex, earth_x, earth_y, luminance) ==
    Sampled(TexelAt(day_tex, earth_y, earth_x),
            TexelAt(night_tex, earth_y, earth_x),
            earth_x, earth_y, luminance)

\* Luminance with the lighting flag ignored.
LuminanceAlwaysLit(inter, lit) ==
    clamp(Mul(5 * ONE,
              dot(normalize(inter),
                  normalize(vector(<<0, LIGHT_Y * ONE, 0>>, inter))))
          + ONE \div 2, 0, ONE)

\* luminance at the intersection point inter
Luminance(inter, lit) ==
    IF lit
    THEN clamp(Mul(5 * ONE,
                   dot(normalize(inter),
                       normalize(vector(<<0, LIGHT_Y * ONE, 0>>, inter))))
               + ONE \div 2, 0, ONE)
    ELSE ONE

\* theta left as it is, without the reduction to [0, 1).
FractNone(theta) == theta

\* theta -= theta.floor()
Fract(theta) == theta - Floor(theta) * ONE

\* earth_x = clamp_int((theta * (texture_width - 1) as f64) as i32, 0, ..)
EarthX(temp, angle, texture_width) ==
    clamp_int(Trunc(Fract(Div(-Atan2(temp[2], temp[1]), PI_CONST)
                          + ONE \div 2 + Div(RDiv(angle, 2), PI_CONST))
                    * (texture_width - 1)),
              0, texture_width - 1)

\* earth_y = clamp_int((phi * (texture_height - 1) as f64) as i32, 0, ..)
\* with phi = -temp[2] / radius / 2.0 + 0.5
EarthY(temp, radius, texture_height) ==
    clamp_int(AsI32(FloatTimes(FloatHalfPlusHalf(FloatDiv(-temp[3], radius)),
                               texture_height - 1)),
              0, texture_height - 1)

\* From the tilt-corrected point temp to the texels.
Texel(temp, inter, radius, angle, day_tex, night_tex, lit) ==
    Sample(day_tex, night_tex,
           EarthX(temp, angle, Len(day_tex[1])),
           EarthY(temp, radius, Len(day_tex)),
           Luminance(inter, lit))

\* o + distance * u
Along(o, distance, u) ==
    << o[1] + Mul(distance, u[1]),
       o[2] + Mul(distance, u[2]),
       o[3] + Mul(distance, u[3]) >>

\* The near intersection of the ray o + t * u with the sphere.
Intersection(u, o, discriminant) ==
    Along(o, -Sqrt(discriminant) - dot(u, o), u)

\* Misses with the comparison inverted.
MissesInverted(discriminant) == discriminant > 0

\* discriminant < 0.0: the ray misses the sphere
Misses(discriminant) == discriminant < 0

\* Discriminant with the signs of its last two terms exchanged.
DiscriminantSigns(u, o, radius) ==
    Mul(dot(u, o), dot(u, o)) + dot(o, o) - Mul(radius, radius)

Discriminant(u, o, radius) ==
    Mul(dot(u, o), dot(u, o)) - dot(o, o) + Mul(radius, radius)

\* if discriminant < 0.0 { continue; } and the rest of the loop body
Trace(u, o, discriminant, radius, angle, tilt_rad, day_tex, night_tex, lit) ==
    IF Misses(discriminant) THEN NoPixel
    ELSE Texel(rotate_x(Intersection(u, o, discriminant), -tilt_rad),
               Intersection(u, o, discriminant),
               radius, angle, day_tex, night_tex, lit)

Cast(u, o, radius, angle, tilt_rad, day_tex, night_tex, lit) ==
    Trace(u, o, Discriminant(u, o, radius), radius, angle, tilt_rad,
          day_tex, night_tex, lit)

\* u minus the eye position
FromEye(u, cam) == <<u[1] - cam.x, u[2] - cam.y, u[3] - cam.z>>

\* The direction in camera space of the ray through the pixel (xi, yi) of a
\* grid of cw x ch cells, half being (cw / 2, ch / 2).
ScreenRay(xi, yi, hw, hh) ==
    << -Mul(Div((xi * ONE - hw) + ONE \div 2, hw), 1200),
       Div((yi * ONE - hh) + ONE \div 2, hh),
       -ONE >>

\* The unit ray u through the pixel (xi, yi), in world space.
Ray(cam, xi, yi, cw, ch) ==
    normalize(FromEye(transform_vector(
        ScreenRay(xi, yi, RDiv(cw * ONE, 2), RDiv(ch * ONE, 2)),
        cam.matrix), cam))

Pixel(cam, xi, yi, radius0, angle, day_tex, night_tex, sc, tl, lit, cw, ch) ==
    Cast(Ray(cam, xi, yi, cw, ch), <<cam.x, cam.y, cam.z>>,
         Mul(radius0, sc), angle, ToRadians(tl), day_tex, night_tex, lit)

\* draw_point(canvas, x, y, c, canvas_width, canvas_height) on one cell
draw_point(cv, x, y, c, canvas_width, canvas_height) ==
    IF x < canvas_width /\ y < canvas_height
       /\ y + 1 \in DOMAIN cv /\ x + 1 \in DOMAIN cv[y + 1]
    THEN [cv EXCEPT ![y + 1][x + 1] = c]
    ELSE cv

\* Pixels returning early for a first row of fewer than two characters.
PixelsNeedingTwo(cam, radius0, angle, day_tex, night_tex, sc, tl, lit, cw, ch) ==
    IF Len(day_tex) = 0 THEN <<>>
    ELSE IF Len(day_tex[1]) <= 1 THEN <<>>
    ELSE [y \in 1..ch |-> [x \in 1..cw |->
             Pixel(cam, x - 1, y - 1, radius0, angle, day_tex, night_tex,
                   sc, tl, lit, cw, ch)]]

\* The pixels of one render_sphere call, row by row; none when the day
\* texture has no row or an empty first row (the early returns).
Pixels(cam, radius0, angle, day_tex, night_tex, sc, tl, lit, cw, ch) ==
    IF Len(day_tex) = 0 THEN <<>>
    ELSE IF Len(day_tex[1]) = 0 THEN <<>>
    ELSE [y \in 1..ch |-> [x \in 1..cw |->
             Pixel(cam, x - 1, y - 1, radius0, angle, day_tex, night_tex,
                   sc, tl, lit, cw, ch)]]

\* The canvas after render_sphere: every pixel that calls draw_point.
Drawn(cv, p, cw, ch) ==
    [y \in DOMAIN cv |-> [x \in DOMAIN cv[y] |->
        IF y \in DOMAIN p /\ x \in DOMAIN p[y] /\ p[y][x].draw
        THEN draw_point(cv, x - 1, y - 1, p[y][x].c, cw, ch)[y][x]
        ELSE cv[y][x]]]

-----------------------------------------------------------------------------
(* texture.rs and the texture files on disk                                *)

\* A file: unreadable (missing), or its lines, each a row of characters.
Missing == [readable |-> FALSE, lines |-> <<>>]

File(rows) == [readable |-> TRUE, lines |-> rows]

EARTH_TXT == "earth.txt"

EARTH_NIGHT_TXT == "earth_night.txt"

\* load_texture(filename): Err with the path as context, or the rows.
load_texture(file, path) ==
    IF ~file.readable
    THEN [ok |-> FALSE, rows |-> <<>>,
          chain |-> << [text |-> "Error loading texture", path |-> path],
                       [text |-> "No such file or directory", path |-> ""] >>]
    ELSE [ok |-> TRUE, rows |-> file.lines, chain |-> <<>>]

\* .with_context(|| format!("Failed to load {}", path))
with_context(res, path) ==
    IF res.ok THEN res
    ELSE [res EXCEPT !.chain = << [text |-> "Failed to load", path |-> path] >>
                                \o res.chain]

\* The texture files the model draws from.
Day3 == << <<"@", "V", "Y">>, <<"O", "L", "X">>, <<".", ":", ";">> >>

Night3 == << <<" ", ".", " ">>, <<" ", ":", " ">>, <<" ", ";", " ">> >>

\* texels that are not palette characters
Day3Foreign == << <<"@", "?", "Y">>, <<"O", "L", "X">>, <<".", ":", ";">> >>

Night3Foreign == << <<" ", ".", " ">>, <<" ", "~", " ">>, <<" ", ";", " ">> >>

\* rows of different lengths
Day3Ragged == << <<"@", "V", "Y">>, <<"O">>, <<".", ":">> >>

Night1 == << <<".">> >>

Day4 == [y \in 1..4 |-> [x \in 1..4 |-> "@"]]

Night4 == [y \in 1..4 |-> [x \in 1..4 |-> " "]]

\* a file whose first line is blank
BlankFirst == << <<>>, <<"@", "V", "Y">>, <<"O", "L", "X">> >>

TextureDirs ==
    { [earth |-> Missing,            night |-> File(Night3)],
      [earth |-> File(Day3),         night |-> Missing],
      [earth |-> Missing,            night |-> Missing],
      [earth |-> File(<<>>),         night |-> File(Night3)],
      [earth |-> File(Day3),         night |-> File(<<>>)],
      [earth |-> File(<<>>),         night |-> Missing],
      [earth |-> File(BlankFirst),   night |-> File(Night3)],
      [earth |-> File(Day3),         night |-> File(BlankFirst)],
      [earth |-> File(Day3),         night |-> File(Night3)],
      [earth |-> File(Day3Foreign),  night |-> File(Night3Foreign)],
      [earth |-> File(Day3Ragged),   night |-> File(Night3)],
      [earth |-> File(Day3),         night |-> File(Night1)],
      [earth |-> File(Night1),       night |-> File(Night1)],
      [earth |-> File(Day4),         night |-> File(Night4)] }

-----------------------------------------------------------------------------
(* renderer.rs                                                             *)

\* No App has been constructed.
NoApp ==
    /\ state = "Home"
    /\ apps = <<>>
    /\ files = <<>>
    /\ app_selection = 0
    /\ recent_selection = <<>>
    /\ settings_selection = <<>>
    /\ should_quit = FALSE
    /\ launched = <<>>
    /\ failed = FALSE

\* The statistics before the first refresh: every history queue is empty
\* (SystemStats::new), with no network interface seen so far.
NoStats ==
    [last_refresh |-> 0,
     cpu_samples |-> <<>>, temp_samples |-> <<>>,
     one_min_samples |-> <<>>, five_min_samples |-> <<>>,
     fifteen_min_samples |-> <<>>,
     used_samples |-> <<>>, free_samples |-> <<>>,
     usage_samples |-> <<>>,
     download_samples |-> <<>>, upload_samples |-> <<>>,
     primary_interface |-> <<>>, prev_network_totals |-> <<>>,
     peak_download |-> 0, peak_upload |-> 0]

\* A terminal area of width x height cells at the origin.
Rect(width, height) == [width |-> width, height |-> height]

NoDashboard ==
    /\ stats = NoStats
    /\ disks = 1
    /\ area = Rect(0, 0)
    /\ positions = <<>>

NoCall == [width |-> 0, height |-> 0, rows |-> 0, cols |-> 0, fill |-> " "]

\* The grid a caller passes to render_frame: rows x cols cells of fill.
Prefilled(c) == [y \in 1..c.rows |-> [x \in 1..c.cols |-> c.fill]]

Init ==
    /\ dir \in TextureDirs
    /\ status = "none"
    /\ error = <<>>
    /\ earth = <<>>
    /\ earth_night = <<>>
    /\ angle_offset = 0
    /\ scale = 0
    /\ speed = 0
    /\ tilt = 0
    /\ lighting = FALSE
    /\ canvas = <<>>
    /\ call = NoCall
    /\ px = <<>>
    /\ prev = <<>>
    /\ vin = <<0, 0, 0>>
    /\ vout = <<>>
    /\ NoApp
    /\ NoDashboard

\* GlobeRenderer::new(texture_dir)
New ==
    /\ status = "none"
    /\ LET e == with_context(load_texture(dir.earth, EARTH_TXT), EARTH_TXT)
           n == with_context(load_texture(dir.night, EARTH_NIGHT_TXT),
                             EARTH_NIGHT_TXT)
       IN  IF ~e.ok
           THEN /\ status' = "err"
                /\ error' = e.chain
                /\ UNCHANGED globe
           ELSE IF ~n.ok
           THEN /\ status' = "err"
                /\ error' = n.chain
                /\ UNCHANGED globe
           ELSE IF Len(e.rows) = 0 \/ Len(n.rows) = 0
           THEN /\ status' = "err"
                /\ error' = << [text |-> "Failed to load textures",
                                path |-> ""] >>
                /\ UNCHANGED globe
           ELSE /\ status' = "ok"
                /\ error' = <<>>
                /\ earth' = e.rows
                /\ earth_night' = n.rows
                /\ angle_offset' = 0
                /\ scale' = ONE
                /\ speed' = ONE
                /\ tilt' = 23500
                /\ lighting' = TRUE
    /\ UNCHANGED <<dir, frame, outside>>

\* GlobeRenderer.camera: Camera::new(2.0, 0.0, 0.0), never reassigned.
camera == CameraNew(2 * ONE, 0, 0)

\* The values the setters are called with.
Scales == {0, ONE, 1200}

Tilts == {0, 23500}

MaxSpeed == 2

Speeds == {s * ONE : s \in -MaxSpeed..MaxSpeed}

\* The render_frame calls: width from 3 to MaxWidth and height 3, on a grid
\* of 4 x 4 cells of '#': wider than, as wide as and narrower than the width
\* passed, and one row taller than the height passed.
MaxWidth == 5

Calls ==
    { [width |-> w, height |-> 3, rows |-> 4, cols |-> 4, fill |-> "#"] :
        w \in 3..MaxWidth }

\* SetScale validating its argument: a negative scale is stored as 0.
SetScaleValidated(v) ==
    /\ status = "ok"
    /\ scale' = Max(v, 0)
    /\ call' = NoCall
    /\ prev' = <<>>
    /\ UNCHANGED <<dir, status, error, earth, earth_night, angle_offset,
                   speed, tilt, lighting, canvas, px, outside>>

\* set_scale(scale)
SetScale(v) ==
    /\ status = "ok"
    /\ scale' = v
    /\ call' = NoCall
    /\ prev' = <<>>
    /\ UNCHANGED <<dir, status, error, earth, earth_night, angle_offset,
                   speed, tilt, lighting, canvas, px, outside>>

\* set_speed(speed)
SetSpeed(v) ==
    /\ status = "ok"
    /\ speed' = v
    /\ call' = NoCall
    /\ prev' = <<>>
    /\ UNCHANGED <<dir, status, error, earth, earth_night, angle_offset,
                   scale, tilt, lighting, canvas, px, outside>>

\* set_tilt(tilt)
SetTilt(v) ==
    /\ status = "ok"
    /\ tilt' = v
    /\ call' = NoCall
    /\ prev' = <<>>
    /\ UNCHANGED <<dir, status, error, earth, earth_night, angle_offset,
                   scale, speed, lighting, canvas, px, outside>>

\* set_lighting(lighting)
SetLighting(v) ==
    /\ status = "ok"
    /\ lighting' = v
    /\ call' = NoCall
    /\ prev' = <<>>
    /\ UNCHANGED <<dir, status, error, earth, earth_night, angle_offset,
                   scale, speed, tilt, canvas, px, outside>>

\* RenderFrame advancing the rotation by 2 * PI / 18 on every call, as a
\* renderer that animates while it draws would.
RenderFrameAdvancing(c) ==
    /\ status = "ok"
    /\ px' = Pixels(camera, ONE, angle_offset, earth, earth_night, scale,
                    tilt, lighting, c.width, c.height)
    /\ canvas' = Drawn(Prefilled(c), px', c.width, c.height)
    /\ call' = c
    /\ prev' = IF call = c THEN canvas ELSE <<>>
    /\ angle_offset' = (angle_offset + RDiv(2 * PI_CONST, 18)) % (2 * PI_CONST)
    /\ UNCHANGED <<dir, status, error, earth, earth_night, scale, speed, tilt,
                   lighting, outside>>

\* render_frame(canvas, width, height) on the grid Prefilled(c)
RenderFrame(c) ==
    /\ status = "ok"
    /\ px' = Pixels(camera, ONE, angle_offset, earth, earth_night, scale,
                    tilt, lighting, c.width, c.height)
    /\ canvas' = Drawn(Prefilled(c), px', c.width, c.height)
    /\ call' = c
    /\ prev' = IF call = c THEN canvas ELSE <<>>
    /\ UNCHANGED <<dir, status, error, globe, outside>>

\* f64 % f64: the remainder has the sign of the dividend.
FRem(a, m) == IF a >= 0 THEN a % m ELSE -((-a) % m)

\* let rotation_rate = 3.49 * self.speed
ROTATION_RATE == 3490

\* Update keeping the rotation rate it computed in the speed field.
UpdateStoringRate(delta_time) ==
    /\ status = "ok"
    /\ speed' = Mul(ROTATION_RATE, speed)
    /\ angle_offset' = FRem(angle_offset + Mul(speed', delta_time),
                            2 * PI_CONST)
    /\ call' = NoCall
    /\ prev' = <<>>
    /\ UNCHANGED <<dir, status, error, earth, earth_night, scale, tilt,
                   lighting, canvas, px, outside>>

\* update(delta_time)
Update(delta_time) ==
    /\ status = "ok"
    /\ LET rotation_rate == Mul(ROTATION_RATE, speed)
       IN  angle_offset' = FRem(angle_offset + Mul(rotation_rate, delta_time),
                                2 * PI_CONST)
    /\ call' = NoCall
    /\ prev' = <<>>
    /\ UNCHANGED <<dir, status, error, earth, earth_night, scale, speed, tilt,
                   lighting, canvas, px, outside>>

Next ==
    \/ New
    \/ \E v \in Scales : SetScale(v)
    \/ \E v \in Tilts : SetTilt(v)
    \/ \E v \in BOOLEAN : SetLighting(v)
    \/ \E c \in Calls : RenderFrame(c)

Spec == Init /\ [][Next]_vars

-----------------------------------------------------------------------------
(* The rotation of a constructed renderer: set_speed and update.           *)

\* The elapsed times update is called with, in seconds: none, one frame
\* (0.1 s), and whole seconds up to MaxSeconds.
MaxSeconds == 2

DeltaTimes == {0, ONE \div 10} \cup {t * ONE : t \in 1..MaxSeconds}

\* The renderer GlobeRenderer::new returns for the textures Day3 and Night3.
InitRot ==
    /\ dir = [earth |-> File(Day3), night |-> File(Night3)]
    /\ status = "ok"
    /\ error = <<>>
    /\ earth = Day3
    /\ earth_night = Night3
    /\ angle_offset = 0
    /\ scale = ONE
    /\ speed = ONE
    /\ tilt = 23500
    /\ lighting = TRUE
    /\ canvas = <<>>
    /\ call = NoCall
    /\ px = <<>>
    /\ prev = <<>>
    /\ vin = <<0, 0, 0>>
    /\ vout = <<>>
    /\ NoApp
    /\ NoDashboard

NextRot ==
    \/ \E v \in Speeds : SetSpeed(v)
    \/ \E t \in DeltaTimes : Update(t)

SpecRot == InitRot /\ [][NextRot]_vars

-----------------------------------------------------------------------------
(* The tunable parameters of a constructed renderer: the four setters and  *)
(* the four getters.                                                       *)

get_scale == scale

get_speed == speed

get_tilt == tilt

get_lighting == lighting

\* The values set_scale, set_speed and set_tilt are called with: zero,
\* negative and extreme ones.
Extremes == {-1000000 * ONE, -ONE, 0, ONE, 1000000 * ONE}

\* Rotation offsets update leaves in the renderer.
Offsets == {-(PI_CONST \div 2), 0, PI_CONST \div 2, 3 * (PI_CONST \div 2)}

\* The renderer GlobeRenderer::new returns for the textures Day3 and Night3,
\* after update calls.
InitSet ==
    /\ dir = [earth |-> File(Day3), night |-> File(Night3)]
    /\ status = "ok"
    /\ error = <<>>
    /\ earth = Day3
    /\ earth_night = Night3
    /\ angle_offset \in Offsets
    /\ scale = ONE
    /\ speed = ONE
    /\ tilt = 23500
    /\ lighting = TRUE
    /\ canvas = <<>>
    /\ call = NoCall
    /\ px = <<>>
    /\ prev = <<>>
    /\ vin = <<0, 0, 0>>
    /\ vout = <<>>
    /\ NoApp
    /\ NoDashboard

NextSet ==
    \/ \E v \in Extremes : SetScale(v)
    \/ \E v \in Extremes : SetSpeed(v)
    \/ \E v \in Extremes : SetTilt(v)
    \/ \E v \in BOOLEAN : SetLighting(v)

SpecSet == InitSet /\ [][NextSet]_vars

-----------------------------------------------------------------------------
(* math::normalize applied to vectors, the zero vector among them.         *)

\* The components of the vectors normalize is applied to.
Components == {-2 * ONE, -ONE, 0, ONE, 2 * ONE}

Vectors == Components \X Components \X Components

InitVec ==
    /\ dir = [earth |-> Missing, night |-> Missing]
    /\ status = "none"
    /\ error = <<>>
    /\ earth = <<>>
    /\ earth_night = <<>>
    /\ angle_offset = 0
    /\ scale = 0
    /\ speed = 0
    /\ tilt = 0
    /\ lighting = FALSE
    /\ canvas = <<>>
    /\ call = NoCall
    /\ px = <<>>
    /\ prev = <<>>
    /\ vin \in Vectors
    /\ vout = <<>>
    /\ NoApp
    /\ NoDashboard

\* let r = normalize(vin)
Normalize ==
    /\ vout = <<>>
    /\ vout' = normalize(vin)
    /\ UNCHANGED <<dir, status, error, globe, frame, vin, ui, dashboard>>

\* the caller turns to another vector
Another(v) ==
    /\ vout # <<>>
    /\ vin' = v
    /\ vout' = <<>>
    /\ UNCHANGED <<dir, status, error, globe, frame, ui, dashboard>>

NextVec ==
    \/ Normalize
    \/ \E v \in Vectors : Another(v)

SpecVec == InitVec /\ [][NextVec]_vars

-----------------------------------------------------------------------------
(* The per-frame contract: the host constructs the renderer, then calls    *)
(* update and render_frame on every tick, and may toggle the lighting.     *)

\* The texture directories of the ticking renderer: textures that differ
\* from column to column, the uniform 4 x 4 textures, and 1 x 1 textures.
TickDirs ==
    { [earth |-> File(Day3),   night |-> File(Night3)],
      [earth |-> File(Day4),   night |-> File(Night4)],
      [earth |-> File(Night1), night |-> File(Night1)] }

\* The elapsed times of a tick, in seconds: none, and 0.45 s, which is a
\* quarter turn at speed 1.0 (3.49 * 0.45 = PI / 2).
TickTimes == {0, 450}

\* The grids of a tick: 10 x 10 and 5 x 5 cells of '#', rendered in full.
TickCalls ==
    { [width |-> n, height |-> n, rows |-> n, cols |-> n, fill |-> "#"] :
        n \in {5, 10} }

InitTick ==
    /\ dir \in TickDirs
    /\ status = "none"
    /\ error = <<>>
    /\ earth = <<>>
    /\ earth_night = <<>>
    /\ angle_offset = 0
    /\ scale = 0
    /\ speed = 0
    /\ tilt = 0
    /\ lighting = FALSE
    /\ canvas = <<>>
    /\ call = NoCall
    /\ px = <<>>
    /\ prev = <<>>
    /\ vin = <<0, 0, 0>>
    /\ vout = <<>>
    /\ NoApp
    /\ NoDashboard

NextTick ==
    \/ New
    \/ \E t \in TickTimes : Update(t)
    \/ \E v \in BOOLEAN : SetLighting(v)
    \/ \E c \in TickCalls : RenderFrame(c)

SpecTick == InitTick /\ [][NextTick]_vars

-----------------------------------------------------------------------------
(* recent_files.rs and launcher.rs                                         *)

\* Option<T>: <<>> for None, <<v>> for Some(v).
None == <<>>

Some(v) == <<v>>

\* a.saturating_sub(b) on usize
saturating_sub(a, b) == IF a > b THEN a - b ELSE 0

\* seq.get(i), i counted from 0
get(seq, i) == IF i + 1 \in DOMAIN seq THEN Some(seq[i + 1]) ELSE None

\* A path is its file stem and its extension ("" when it has none).
PathBuf(stem, ext) == [stem |-> stem, ext |-> ext]

\* str::to_lowercase on the extensions the model uses
to_lowercase(ext) ==
    CASE ext = "TXT" -> "txt"
      [] ext = "MD"  -> "md"
      [] OTHER       -> ext

TEXT_EXTENSIONS ==
    {"txt", "md", "rs", "py", "js", "ts", "json", "toml", "yaml", "yml",
     "xml", "html", "css", "sh", "zsh", "bash", "c", "cpp", "h", "hpp",
     "java", "go", "rb", "php", "swift", "kt", "scala", "clj", "lua",
     "vim", "conf", "config", "ini", "log", "csv", "tsv"}

\* RecentFiles::is_text_file(path)
is_text_file(path) == to_lowercase(path.ext) \in TEXT_EXTENSIONS

\* RecentFiles.max_files
max_files == 20

\* data.files.retain(|e| e.path != path)
retain(list, path) == SelectSeq(list, LAMBDA e : e # path)

\* data.files.truncate(len)
truncate(list, len) == IF Len(list) > len THEN SubSeq(list, 1, len) ELSE list

\* add_file without the removal of the existing entry.
add_file_again(store, path) ==
    IF ~is_text_file(path) THEN store
    ELSE truncate(<<path>> \o store, max_files)

\* RecentFiles::add_file(path): the store after the call
add_file(store, path) ==
    IF ~is_text_file(path) THEN store
    ELSE truncate(<<path>> \o retain(store, path), max_files)

\* RecentFiles::get_files(): the paths of the store, in its order
get_files(store) == [i \in DOMAIN store |-> store[i]]

\* What the launcher is asked for.
launch_app(app) == <<"launch_app", app>>

launch_terminal == <<"launch_terminal">>

open_file(path) == <<"open_file", path>>

create_and_open_text_file(path) == <<"create_and_open_text_file", path>>

-----------------------------------------------------------------------------
(* ui/app.rs: App::handle_key on the record a of the App's fields, the     *)
(* store and what the call asks the launcher for; ok is whether the        *)
(* launcher call of the key succeeds.                                      *)

\* the `?` on a launcher error: handle_key returns Err
Err(a) == [a EXCEPT !.failed = TRUE]

\* config.apps.len().saturating_sub(1) / 2
Middle(list) == saturating_sub(Len(list), 1) \div 2

\* ArmEsc quitting from every state.
ArmEscQuits(a) == [a EXCEPT !.should_quit = TRUE]

\* KeyCode::Esc
ArmEsc(a) ==
    IF a.state = "Home" THEN [a EXCEPT !.should_quit = TRUE]
    ELSE [a EXCEPT !.state = "Home"]

\* KeyCode::Char('a')
ArmA(a) ==
    [a EXCEPT !.state = "Apps",
              !.app_selection = IF a.apps # <<>> THEN Middle(a.apps) ELSE 0]

\* ArmR without the refresh of the selection.
ArmRStale(a) == [a EXCEPT !.state = "RecentFiles"]

\* KeyCode::Char('r')
ArmR(a) ==
    [a EXCEPT !.state = "RecentFiles",
              !.recent_selection =
                  IF get_files(a.files) # <<>> THEN Some(0) ELSE None]

\* KeyCode::Char('s')
ArmS(a) == [a EXCEPT !.state = "Settings", !.settings_selection = Some(0)]

\* KeyCode::Char('h')
ArmH(a) == IF a.state # "Home" THEN [a EXCEPT !.state = "Home"] ELSE a

\* ArmJ with `<=` in place of `<`.
ArmJPastEnd(a) ==
    CASE a.state = "Apps" ->
           IF a.app_selection <= saturating_sub(Len(a.apps), 1)
           THEN [a EXCEPT !.app_selection = @ + 1] ELSE a
      [] a.state = "RecentFiles" ->
           IF a.recent_selection # None
              /\ a.recent_selection[1]
                     <= saturating_sub(Len(get_files(a.files)), 1)
           THEN [a EXCEPT !.recent_selection = Some(@[1] + 1)] ELSE a
      [] a.state = "Settings" ->
           IF a.settings_selection # None /\ a.settings_selection[1] <= 4
           THEN [a EXCEPT !.settings_selection = Some(@[1] + 1)] ELSE a
      [] OTHER -> a

\* KeyCode::Char('j')
ArmJ(a) ==
    CASE a.state = "Apps" ->
           IF a.app_selection < saturating_sub(Len(a.apps), 1)
           THEN [a EXCEPT !.app_selection = @ + 1] ELSE a
      [] a.state = "RecentFiles" ->
           IF a.recent_selection # None
              /\ a.recent_selection[1]
                     < saturating_sub(Len(get_files(a.files)), 1)
           THEN [a EXCEPT !.recent_selection = Some(@[1] + 1)] ELSE a
      [] a.state = "Settings" ->
           IF a.settings_selection # None /\ a.settings_selection[1] < 4
           THEN [a EXCEPT !.settings_selection = Some(@[1] + 1)] ELSE a
      [] OTHER -> a

\* KeyCode::Char('k')
ArmK(a) ==
    CASE a.state = "Apps" ->
           IF a.app_selection > 0
           THEN [a EXCEPT !.app_selection = @ - 1] ELSE a
      [] a.state = "RecentFiles" ->
           IF a.recent_selection # None /\ a.recent_selection[1] > 0
           THEN [a EXCEPT !.recent_selection = Some(@[1] - 1)] ELSE a
      [] a.state = "Settings" ->
           IF a.settings_selection # None /\ a.settings_selection[1] > 0
           THEN [a EXCEPT !.settings_selection = Some(@[1] - 1)] ELSE a
      [] OTHER -> a

\* launcher::launch_app(app)?
LaunchApp(a, app, ok) ==
    IF ok THEN [a EXCEPT !.launched = launch_app(app)] ELSE Err(a)

\* launcher::open_file(file)?; self.recent_files.add_file(file.clone())?
OpenFile(a, file, ok) ==
    IF ok THEN [a EXCEPT !.launched = open_file(file),
                         !.files = add_file(a.files, file)]
    ELSE Err(a)

\* ArmL opening the file without adding it to the recent files.
ArmLOpens(a, ok) ==
    CASE a.state = "Apps" ->
           IF get(a.apps, a.app_selection) # None
           THEN LaunchApp(a, get(a.apps, a.app_selection)[1], ok) ELSE a
      [] a.state = "RecentFiles" ->
           IF a.recent_selection # None
              /\ get(get_files(a.files), a.recent_selection[1]) # None
           THEN IF ok
                THEN [a EXCEPT !.launched =
                         open_file(get(get_files(a.files),
                                       a.recent_selection[1])[1])]
                ELSE Err(a)
           ELSE a
      [] OTHER -> a

\* KeyCode::Char('l')
ArmL(a, ok) ==
    CASE a.state = "Apps" ->
           IF get(a.apps, a.app_selection) # None
           THEN LaunchApp(a, get(a.apps, a.app_selection)[1], ok) ELSE a
      [] a.state = "RecentFiles" ->
           IF a.recent_selection # None
              /\ get(get_files(a.files), a.recent_selection[1]) # None
           THEN OpenFile(a, get(get_files(a.files), a.recent_selection[1])[1],
                         ok)
           ELSE a
      [] OTHER -> a

\* KeyCode::Char('n'); created is the path of the file the launcher creates
ArmN(a, ok, created) ==
    IF a.state = "Home"
    THEN IF ok THEN [a EXCEPT !.launched = create_and_open_text_file(created),
                              !.files = add_file(a.files, created)]
         ELSE Err(a)
    ELSE a

\* KeyCode::Enter
ArmEnter(a, ok) ==
    CASE a.state = "Apps" ->
           IF get(a.apps, a.app_selection) # None
           THEN LaunchApp(a, get(a.apps, a.app_selection)[1], ok) ELSE a
      [] a.state = "RecentFiles" ->
           IF a.recent_selection # None
              /\ get(get_files(a.files), a.recent_selection[1]) # None
           THEN OpenFile(a, get(get_files(a.files), a.recent_selection[1])[1],
                         ok)
           ELSE a
      [] a.state = "Home" ->
           IF ok THEN [a EXCEPT !.launched = launch_terminal] ELSE Err(a)
      [] OTHER -> a

\* KeyCode::Up
ArmUp(a) ==
    CASE a.state = "Apps" ->
           IF a.app_selection > 0
           THEN [a EXCEPT !.app_selection = @ - 1] ELSE a
      [] a.state = "RecentFiles" ->
           IF a.recent_selection # None /\ a.recent_selection[1] > 0
           THEN [a EXCEPT !.recent_selection = Some(@[1] - 1)] ELSE a
      [] a.state = "Settings" ->
           IF a.settings_selection # None /\ a.settings_selection[1] > 0
           THEN [a EXCEPT !.settings_selection = Some(@[1] - 1)] ELSE a
      [] OTHER -> a

\* KeyCode::Down
ArmDown(a) ==
    CASE a.state = "Apps" ->
           IF a.app_selection < saturating_sub(Len(a.apps), 1)
           THEN [a EXCEPT !.app_selection = @ + 1] ELSE a
      [] a.state = "RecentFiles" ->
           IF a.recent_selection # None
              /\ a.recent_selection[1]
                     < saturating_sub(Len(get_files(a.files)), 1)
           THEN [a EXCEPT !.recent_selection = Some(@[1] + 1)] ELSE a
      [] a.state = "Settings" ->
           IF a.settings_selection # None /\ a.settings_selection[1] < 4
           THEN [a EXCEPT !.settings_selection = Some(@[1] + 1)] ELSE a
      [] OTHER -> a

\* The key codes: the ones handle_key matches, and "x" for any other.
KeyCodes ==
    {"q", "Q", "Esc", "a", "r", "s", "h", "j", "k", "l", "n", "Enter", "Up",
     "Down", "x"}

\* match key.code { .. }
Match(a, code, ok, created) ==
    CASE code \in {"q", "Q"} -> [a EXCEPT !.should_quit = TRUE]
      [] code = "Esc"   -> ArmEsc(a)
      [] code = "a"     -> ArmA(a)
      [] code = "r"     -> ArmR(a)
      [] code = "s"     -> ArmS(a)
      [] code = "h"     -> ArmH(a)
      [] code = "j"     -> ArmJ(a)
      [] code = "k"     -> ArmK(a)
      [] code = "l"     -> ArmL(a, ok)
      [] code = "n"     -> ArmN(a, ok, created)
      [] code = "Enter" -> ArmEnter(a, ok)
      [] code = "Up"    -> ArmUp(a)
      [] code = "Down"  -> ArmDown(a)
      [] OTHER          -> a

\* App::handle_key(key)
handle_key(a, code, ok, created) ==
    Match([a EXCEPT !.launched = None], code, ok, created)

\* The App, the store and the launcher as one record.
App ==
    [state |-> state, apps |-> apps, files |-> files,
     app_selection |-> app_selection, recent_selection |-> recent_selection,
     settings_selection |-> settings_selection, should_quit |-> should_quit,
     launched |-> launched, failed |-> failed]

\* The apps of the configuration Config::load returns: the 18 default ones
\* when there is no file, the ones of the file and 15 more otherwise.
DEFAULT_APPS == 18

FAKE_APPS == 15

MaxUserApps == 0

AppCounts == {FAKE_APPS + u : u \in 0..MaxUserApps} \cup {DEFAULT_APPS}

\* The store an earlier run of the App has left, and the path of the file
\* the key 'n' creates (the same one within a second).
Stores ==
    { <<>>,
      <<PathBuf("notes", "txt")>>,
      <<PathBuf("README", "MD"), PathBuf("notes", "txt")>> }

NewFiles == {PathBuf("new_file_1", "txt")}

\* The state App::new returns.
InitApp ==
    /\ dir = [earth |-> Missing, night |-> Missing]
    /\ status = "none"
    /\ error = <<>>
    /\ earth = <<>>
    /\ earth_night = <<>>
    /\ angle_offset = 0
    /\ scale = 0
    /\ speed = 0
    /\ tilt = 0
    /\ lighting = FALSE
    /\ canvas = <<>>
    /\ call = NoCall
    /\ px = <<>>
    /\ prev = <<>>
    /\ vin = <<0, 0, 0>>
    /\ vout = <<>>
    /\ state = "Home"
    /\ \E n \in AppCounts : apps = [i \in 1..n |-> i]
    /\ files \in Stores
    /\ app_selection = IF apps = <<>> THEN 0 ELSE Middle(apps)
    /\ recent_selection = IF get_files(files) # <<>> THEN Some(0) ELSE None
    /\ settings_selection = Some(0)
    /\ should_quit = FALSE
    /\ launched = None
    /\ failed = FALSE
    /\ NoDashboard

\* main's loop: app.handle_key(key)?; if app.should_quit { break; }
HandleKey(code, ok, created) ==
    /\ ~should_quit
    /\ ~failed
    /\ state' = handle_key(App, code, ok, created).state
    /\ files' = handle_key(App, code, ok, created).files
    /\ app_selection' = handle_key(App, code, ok, created).app_selection
    /\ recent_selection' = handle_key(App, code, ok, created).recent_selection
    /\ settings_selection' =
           handle_key(App, code, ok, created).settings_selection
    /\ should_quit' = handle_key(App, code, ok, created).should_quit
    /\ launched' = handle_key(App, code, ok, created).launched
    /\ failed' = handle_key(App, code, ok, created).failed
    /\ UNCHANGED <<rendering, vin, vout, apps, dashboard>>

NextApp ==
    \E code \in KeyCodes : \E ok \in BOOLEAN : \E created \in NewFiles :
        HandleKey(code, ok, created)

SpecApp == InitApp /\ [][NextApp]_vars

-----------------------------------------------------------------------------
(* The recent-files store under add_file calls, from the empty store       *)
(* load_data returns when there is no file yet.                            *)

\* Paths a caller adds at any time: text files, one of them with an
\* upper-case extension, a picture and a file without extension.  A stem
\* here is a name and a number.
SomePaths ==
    { PathBuf(<<"notes", 0>>, "txt"), PathBuf(<<"README", 0>>, "MD"),
      PathBuf(<<"photo", 0>>, "png"), PathBuf(<<"Makefile", 0>>, "") }

\* Further text files, each added for the first time after the ones before
\* it: with the text files of SomePaths, more than max_files paths.
MaxFresh == 19

Fresh(n) == PathBuf(<<"src", n>>, "rs")

\* The number of the newest further file in the store, 0 when there is none.
Newest(store) ==
    IF \E n \in 1..MaxFresh : \E i \in DOMAIN store : store[i] = Fresh(n)
    THEN CHOOSE n \in 1..MaxFresh :
             /\ \E i \in DOMAIN store : store[i] = Fresh(n)
             /\ \A m \in (n + 1)..MaxFresh :
                    \A i \in DOMAIN store : store[i] # Fresh(m)
    ELSE 0

\* The paths add_file is called with for the store as it is: those of
\* SomePaths, the newest further file again, and the next further file.
Added(store) ==
    SomePaths
    \cup {Fresh(n) : n \in {Newest(store), Newest(store) + 1}
                                \cap (1..MaxFresh)}

InitRecent ==
    /\ dir = [earth |-> Missing, night |-> Missing]
    /\ status = "none"
    /\ error = <<>>
    /\ earth = <<>>
    /\ earth_night = <<>>
    /\ angle_offset = 0
    /\ scale = 0
    /\ speed = 0
    /\ tilt = 0
    /\ lighting = FALSE
    /\ canvas = <<>>
    /\ call = NoCall
    /\ px = <<>>
    /\ prev = <<>>
    /\ vin = <<0, 0, 0>>
    /\ vout = <<>>
    /\ NoApp
    /\ NoDashboard

\* recent_files.add_file(path)
AddFile(path) ==
    /\ files' = add_file(files, path)
    /\ UNCHANGED <<rendering, vin, vout, state, apps, app_selection,
                   recent_selection, settings_selection, should_quit,
                   launched, failed, dashboard>>

NextRecent == \E path \in Added(files) : AddFile(path)

SpecRecent == InitRecent /\ [][NextRecent]_vars

\* ---------------------------------------------------------------------
\* system_stats.rs: the history queues of SystemStats.  A reading is the
\* time it was taken at, so that every sample in a queue is distinct; the
\* smoothed rates shown next to the histories are not modelled.

max_samples == 60

\* q.push_back(x)
push_unbounded(q, x) == Append(q, x)

\* q.push_back(x); if q.len() > max_samples { q.pop_front(); }
push(q, x) ==
    IF Len(Append(q, x)) > max_samples THEN Tail(Append(q, x))
    ELSE Append(q, x)

Reading(now) == now

\* The part of refresh that does not depend on the network.
RefreshLocal(s, now, disk) ==
    [s EXCEPT !.cpu_samples = push(@, Reading(now)),
              !.temp_samples = push(@, Reading(now)),
              !.one_min_samples = push(@, Reading(now)),
              !.five_min_samples = push(@, Reading(now)),
              !.fifteen_min_samples = push(@, Reading(now)),
              !.used_samples = push(@, Reading(now)),
              !.free_samples = push(@, Reading(now)),
              !.usage_samples = IF disk THEN push(@, Reading(now)) ELSE @,
              !.last_refresh = now]

\* What the network part of refresh meets: the 50 ms timer has not run out
\* ("early"), the machine lists no interface ("none"), the busiest interface
\* is not the one tracked so far ("changed"), or it is ("same").
Networks == {"early", "none", "changed", "same"}

RefreshNetwork(s, now, net) ==
    CASE net \in {"early", "none"} -> s
      [] net = "changed" ->
            [s EXCEPT !.primary_interface = Some("primary"),
                      !.prev_network_totals = Some("totals")]
      [] net = "same" /\ s.prev_network_totals = None ->
            [s EXCEPT !.prev_network_totals = Some("totals")]
      [] OTHER ->
            [s EXCEPT !.download_samples = push(@, Reading(now)),
                      !.upload_samples = push(@, Reading(now)),
                      !.peak_download = Max(@, Reading(now)),
                      !.peak_upload = Max(@, Reading(now)),
                      !.prev_network_totals = Some("totals")]

refresh(s, now, disk, net) == RefreshNetwork(RefreshLocal(s, now, disk), now, net)

\* The refreshes so far (of the last max_samples, once the queue is full)
\* that stored no network sample.
Idle(s) ==
    IF Len(s.download_samples) < max_samples
    THEN s.last_refresh - Len(s.download_samples)
    ELSE s.last_refresh - s.download_samples[1] + 1 - max_samples

MaxIdle == 1
MaxRefreshes == max_samples + 2

\* SystemStats::new: the machine may or may not list a network interface
\* and a disk.
InitStats ==
    /\ dir = [earth |-> Missing, night |-> Missing]
    /\ status = "none"
    /\ error = <<>>
    /\ earth = <<>>
    /\ earth_night = <<>>
    /\ angle_offset = 0
    /\ scale = 0
    /\ speed = 0
    /\ tilt = 0
    /\ lighting = FALSE
    /\ canvas = <<>>
    /\ call = NoCall
    /\ px = <<>>
    /\ prev = <<>>
    /\ vin = <<0, 0, 0>>
    /\ vout = <<>>
    /\ NoApp
    /\ disks \in {0, 1}
    /\ area = Rect(0, 0)
    /\ positions = <<>>
    /\ \/ stats = NoStats
       \/ stats = [NoStats EXCEPT !.primary_interface = Some("primary"),
                                  !.prev_network_totals = Some("totals")]

\* App::update: self.system_stats.refresh()
Refresh(net) ==
    /\ stats.last_refresh < MaxRefreshes
    /\ net = "same" => stats.primary_interface # None
    /\ refresh(stats, stats.last_refresh + 1, disks > 0, net).download_samples
           = stats.download_samples => Idle(stats) < MaxIdle
    /\ stats' = refresh(stats, stats.last_refresh + 1, disks > 0, net)
    /\ UNCHANGED <<rendering, vin, vout, ui, disks, menu>>

NextStats == \E net \in Networks : Refresh(net)

SpecStats == InitStats /\ [][NextStats]_vars

\* ---------------------------------------------------------------------
\* ui/components/globe.rs: GlobeComponent.  Its frame_buffer is the grid it
\* hands to render_frame: the variable canvas.

Blank(width, height) == [y \in 1..height |-> [x \in 1..width |-> " "]]

\* self.frame_buffer.first().map(|r| r.len())
first_len(fb) == IF fb = <<>> THEN None ELSE Some(Len(fb[1]))

\* Resized looking at the number of rows only.
ResizedByRows(fb, width, height) ==
    IF Len(fb) # height THEN Blank(width, height) ELSE fb

\* if len() != height || first().map(|r| r.len()) != Some(width) { ... }
Resized(fb, width, height) ==
    IF Len(fb) # height \/ first_len(fb) # Some(width)
    THEN Blank(width, height)
    ELSE fb

\* for row in &mut self.frame_buffer { row.fill(' ') }
Cleared(fb) == [y \in DOMAIN fb |-> [x \in DOMAIN fb[y] |-> " "]]

\* What render_sphere computes for each pixel at scale sc.
GlobePixels(sc, width, height) ==
    Pixels(camera, ONE, angle_offset, earth, earth_night, sc, tilt, lighting,
           width, height)

\* The buffer after render: resized, cleared, and drawn with the pixels p.
Painted(fb, p, width, height) ==
    Drawn(Cleared(Resized(fb, width, height)), p, width, height)

\* The arguments render passes to render_frame.
Framed(width, height) ==
    [width |-> width, height |-> height, rows |-> height, cols |-> width,
     fill |-> " "]

Widths == {0, 3, 4}
Heights == {0, 3}

\* globe.render(width, height)
GlobeRender(width, height) ==
    /\ status = "ok"
    /\ call' = Framed(width, height)
    /\ px' = GlobePixels(scale, width, height)
    /\ canvas' = Painted(canvas, px', width, height)
    /\ prev' = IF call = Framed(width, height) THEN canvas ELSE <<>>
    /\ UNCHANGED <<dir, status, error, globe, outside>>

\* GlobeComponent::new on a directory with both textures.
InitGlobe ==
    /\ dir = [earth |-> File(Day3), night |-> File(Night3)]
    /\ status = "none"
    /\ error = <<>>
    /\ earth = <<>>
    /\ earth_night = <<>>
    /\ angle_offset = 0
    /\ scale = 0
    /\ speed = 0
    /\ tilt = 0
    /\ lighting = FALSE
    /\ canvas = <<>>
    /\ call = NoCall
    /\ px = <<>>
    /\ prev = <<>>
    /\ vin = <<0, 0, 0>>
    /\ vout = <<>>
    /\ NoApp
    /\ NoDashboard

NextGlobe ==
    \/ New
    \/ \E v \in Scales : SetScale(v)
    \/ \E t \in TickTimes : Update(t)
    \/ \E w \in Widths : \E h \in Heights : GlobeRender(w, h)

SpecGlobe == InitGlobe /\ [][NextGlobe]_vars

\* ---------------------------------------------------------------------
\* ui/views: what a view does to the globe.

\* the scale of globe.set_scale(original_scale * 1.2)
Enlarged(original_scale) == Mul(original_scale, 1200)

\* A view that leaves the scale as it is.
RestoreForgotten(current, original_scale) == current

\* the scale after globe.set_scale(original_scale)
Restore(current, original_scale) == original_scale

\* How often a view enlarges, renders and restores: render_home once; the
\* others once to find the cells the globe occupies and once to draw it
\* over the stars.
Passes(view) == IF view = "Home" THEN 1 ELSE 2

\* The scale after a view that found original_scale.
ScaleAfter(view, original_scale) ==
    IF Passes(view) = 1
    THEN Restore(Enlarged(original_scale), original_scale)
    ELSE Restore(Enlarged(Restore(Enlarged(original_scale), original_scale)),
                 original_scale)

\* The frame buffer after a view whose renders computed the pixels p.
BufferAfter(view, fb, p, width, height) ==
    IF Passes(view) = 1
    THEN Painted(fb, p, width, height)
    ELSE Painted(Painted(fb, p, width, height), p, width, height)

Views == {"Home", "Apps", "RecentFiles", "Settings"}

\* The scales of the configuration file; 1.15 is the default.
ConfigScales == {ONE, 1150}

\* main before its loop: GlobeComponent::new and the configuration applied.
InitView ==
    /\ dir = [earth |-> File(Day3), night |-> File(Night3)]
    /\ status = "ok"
    /\ error = <<>>
    /\ earth = Day3
    /\ earth_night = Night3
    /\ angle_offset = 0
    /\ scale \in ConfigScales
    /\ speed = ONE
    /\ tilt = 23500
    /\ lighting = FALSE
    /\ canvas = <<>>
    /\ call = NoCall
    /\ px = <<>>
    /\ prev = <<>>
    /\ vin = <<0, 0, 0>>
    /\ vout = <<>>
    /\ NoApp
    /\ NoDashboard

\* One frame: the view of app.state, in an area whose globe half is
\* width x height.
RenderView(width, height) ==
    /\ status = "ok"
    /\ call' = Framed(width, height)
    /\ prev' = IF call = Framed(width, height) THEN canvas ELSE <<>>
    /\ px' = GlobePixels(Enlarged(scale), width, height)
    /\ canvas' = BufferAfter(state, canvas, px', width, height)
    /\ scale' = ScaleAfter(state, scale)
    /\ UNCHANGED <<dir, status, error, earth, earth_night, angle_offset,
                   speed, tilt, lighting, outside>>

\* A key that sets app.state: 'h', 'a', 'r', 's' or Esc.
SwitchView(view) ==
    /\ state' = view
    /\ UNCHANGED <<rendering, vin, vout, apps, files, app_selection,
                   recent_selection, settings_selection, should_quit,
                   launched, failed, dashboard>>

\* The globe halves of the terminal areas the views are drawn in: none
\* until the terminal has a size.
Areas == { <<0, 0>>, <<3, 3>>, <<4, 3>> }

NextView ==
    \/ \E t \in TickTimes : Update(t)
    \/ \E view \in Views : SwitchView(view)
    \/ \E half \in Areas : RenderView(half[1], half[2])

SpecView == InitView /\ [][NextView]_vars

\* ---------------------------------------------------------------------
\* ui/components/curve_menu.rs.  The Y computation is exact: its f64 values
\* are whole numbers of ninetieths (height / 2, height * 0.4, (i - 9) / 9),
\* kept as integers in that unit.  The X computation is in fixed point.

NUM_SLOTS == 19
CURSOR_SLOT == 9

NINETIETHS == 90

\* let center_y = area.height as f64 / 2.0
center_y(a) == (a.height * NINETIETHS) \div 2

\* let y_range = area.height as f64 * 0.4
y_range(a) == (a.height * NINETIETHS * 4) \div 10

\* let normalized_offset = offset_from_center / max_offset
curve_factor(i) ==
    ((i - CURSOR_SLOT) * NINETIETHS * 2) \div (NUM_SLOTS - 1)

\* (center_y + curve_factor * y_range) as u16, then .min(height - 1)
SlotY(a, i) ==
    Min(Max(center_y(a) + (curve_factor(i) * y_range(a)) \div NINETIETHS, 0)
            \div NINETIETHS,
        saturating_sub(a.height, 1))

\* adjusted_y for offset: up for the slots above the cursor, down for the
\* others
Shifted(a, i, y, offset) ==
    IF offset = 0 THEN y
    ELSE IF i < CURSOR_SLOT THEN saturating_sub(y, offset)
    ELSE Min(y + offset, saturating_sub(a.height, 1))

\* Adjust taking the row computed for the slot, used or not.
AdjustNever(a, i, y, used, offset) == y

\* while used_y_positions.contains(&adjusted_y) && offset < area.height
RECURSIVE Adjust(_, _, _, _, _)
Adjust(a, i, y, used, offset) ==
    IF Shifted(a, i, y, offset) \in used /\ offset < a.height
    THEN Adjust(a, i, y, used, offset + 1)
    ELSE Shifted(a, i, y, offset)

\* let globe_width_px = (area.width as f64 * 0.5) as u16
globe_width_px(a) == Trunc(Mul(a.width * ONE, ONE \div 2))

\* let base_radius = (globe_width_px.min(area.height) as f64 / 2.0) * 1.2
base_radius(a) ==
    Mul(RDiv(Min(globe_width_px(a), a.height) * ONE, 2), 1200)

\* the rightmost X of the globe at row adjusted_y
globe_rightmost_x(a, adjusted_y) ==
    IF Mul(base_radius(a), base_radius(a))
           - Mul(adjusted_y * ONE - RDiv(a.height * ONE, 2),
                 adjusted_y * ONE - RDiv(a.height * ONE, 2)) >= 0
    THEN RDiv(globe_width_px(a) * ONE, 2)
         + Sqrt(Mul(base_radius(a), base_radius(a))
                - Mul(adjusted_y * ONE - RDiv(a.height * ONE, 2),
                      adjusted_y * ONE - RDiv(a.height * ONE, 2)))
    ELSE globe_width_px(a) * ONE

\* offset_distance = 6.0, less 2 for the two slots at each end and less 1
\* for the next two
effective_offset(i) ==
    IF i \in {0, 1, NUM_SLOTS - 1, NUM_SLOTS - 2} THEN 4 * ONE
    ELSE IF i \in {2, 3, NUM_SLOTS - 3, NUM_SLOTS - 4} THEN 5 * ONE
    ELSE 6 * ONE

\* (globe_rightmost_x + effective_offset) as u16, then .min(width - 1)
SlotX(a, i, adjusted_y) ==
    Min(Trunc(globe_rightmost_x(a, adjusted_y) + effective_offset(i)),
        saturating_sub(a.width, 1))

\* The rows used by the positions pushed so far.
used_y_positions(ps) == { ps[k][2] : k \in DOMAIN ps }

\* The loop from slot i on, ps being the positions pushed so far.
RECURSIVE Slots(_, _, _)
Slots(a, i, ps) ==
    IF i >= NUM_SLOTS THEN ps
    ELSE Slots(a, i + 1,
               Append(ps, << SlotX(a, i, Adjust(a, i, SlotY(a, i),
                                                used_y_positions(ps), 0)),
                             Adjust(a, i, SlotY(a, i),
                                    used_y_positions(ps), 0) >>))

calculate_curve_positions(a) == Slots(a, 0, <<>>)

\* The terminal areas: up to MaxAreaHeight rows, of 0, 40 or 80 columns.
MaxAreaHeight == 24

Rects == { Rect(w, h) : w \in {0, 40, 80}, h \in 0..MaxAreaHeight }

InitCurve ==
    /\ dir = [earth |-> Missing, night |-> Missing]
    /\ status = "none"
    /\ error = <<>>
    /\ earth = <<>>
    /\ earth_night = <<>>
    /\ angle_offset = 0
    /\ scale = 0
    /\ speed = 0
    /\ tilt = 0
    /\ lighting = FALSE
    /\ canvas = <<>>
    /\ call = NoCall
    /\ px = <<>>
    /\ prev = <<>>
    /\ vin = <<0, 0, 0>>
    /\ vout = <<>>
    /\ NoApp
    /\ stats = NoStats
    /\ disks = 1
    /\ area \in Rects
    /\ positions = <<>>

\* let positions = calculate_curve_positions(area)
Calculate ==
    /\ positions = <<>>
    /\ positions' = calculate_curve_positions(area)
    /\ UNCHANGED <<rendering, vin, vout, ui, stats, disks, area>>

\* the terminal is resized: the next frame has another area
Resize(a) ==
    /\ positions # <<>>
    /\ area' = a
    /\ positions' = <<>>
    /\ UNCHANGED <<rendering, vin, vout, ui, stats, disks>>

NextCurve ==
    \/ Calculate
    \/ \E a \in Rects : Resize(a)

SpecCurve == InitCurve /\ [][NextCurve]_vars

-----------------------------------------------------------------------------
(* Properties.                                                             *)

\* The characters of a row, the cells of the grid passed to a call.
Chars(row) == {row[i] : i \in DOMAIN row}

Cells(c) == (1..c.rows) \X (1..c.cols)

\* C1: after any sequence of set_speed and update calls the rotation offset
\* satisfies 0 <= angle_offset < 2 * PI, negative speed * delta_time included.
C1_OffsetInRange ==
    status = "ok" => 0 <= angle_offset /\ angle_offset < 2 * PI_CONST

\* A texture file that cannot be loaded or is empty: unreadable, no row, or
\* a first row of no character.
Unusable(file) ==
    \/ ~file.readable
    \/ Len(file.lines) = 0
    \/ Len(file.lines[1]) = 0

\* C2: GlobeRenderer::new returns an error whenever the day or the night
\* texture fails to load or is empty (no row, or a first row of zero width),
\* and Ok only when both have a row and a non-empty first row.
C2_NewRefusesEmptyTextures ==
    status # "none" =>
        (status = "err" <=> Unusable(dir.earth) \/ Unusable(dir.night))

\* The paths of the texture files of the directory that are unusable.
Offending ==
    {p \in {EARTH_TXT, EARTH_NIGHT_TXT} :
        Unusable(IF p = EARTH_TXT THEN dir.earth ELSE dir.night)}

\* C3: every failure of GlobeRenderer::new, for a missing file and for an
\* empty one, yields an error that names the path of an offending file.
C3_ErrorNamesPath ==
    status = "err" => \E i \in DOMAIN error : error[i].path \in Offending

\* The discriminant of the ray through the cell (x, y), counted from 1, of
\* the last call, for the renderer as it is.
DiscAt(x, y) ==
    Discriminant(Ray(camera, x - 1, y - 1, call.width, call.height),
                 <<camera.x, camera.y, camera.z>>, Mul(ONE, scale))

\* The cell (x, y) is one of the width x height pixels of the last call.
InFrame(x, y) == x <= call.width /\ y <= call.height

\* The pixels of the last call that have a cell in the grid passed.
FramePixels ==
    {q \in Cells(call) : q[1] \in DOMAIN px /\ q[2] \in DOMAIN px[q[1]]}

\* C4: render_sphere writes a cell (x, y) only if the ray through it hits the
\* sphere and x < width, y < height: after the call every cell whose ray
\* misses, and every cell outside width x height, holds the value the caller
\* pre-filled.
C4_WritesOnlyHits ==
    call # NoCall =>
        \A q \in Cells(call) :
            (~InFrame(q[2], q[1]) \/ DiscAt(q[2], q[1]) < 0)
                => canvas[q[1]][q[2]] = call.fill

\* A call that left a missed cell as it was and wrote a hit cell.
C4_Witness ==
    /\ call # NoCall
    /\ \E q \in Cells(call) :
           InFrame(q[2], q[1]) /\ DiscAt(q[2], q[1]) < 0
           /\ canvas[q[1]][q[2]] = call.fill
    /\ \E q \in Cells(call) :
           InFrame(q[2], q[1]) /\ DiscAt(q[2], q[1]) >= 0
           /\ canvas[q[1]][q[2]] # call.fill

\* round to the nearest integer, of a value >= 0
RoundNearest(v) == (v + ONE \div 2) \div ONE

\* C5: the palette index written for a hit pixel is
\* round((1 - luminance) * nightIndex + luminance * dayIndex), rounded to the
\* nearest integer, clamped into 0 .. palette length - 1.
C5_BlendRounds ==
    call # NoCall =>
        \A q \in FramePixels :
            px[q[1]][q[2]].draw =>
                px[q[1]][q[2]].index =
                    clamp_int(RoundNearest(
                                  BlendValue(px[q[1]][q[2]].luminance,
                                             px[q[1]][q[2]].night,
                                             px[q[1]][q[2]].day)),
                              0, Len(PALETTE) - 1)

\* C6: with lighting disabled every cell render_sphere writes holds the
\* character of the day texture at the sampled texel, whatever the night
\* texel is.
C6_UnlitShowsDay ==
    (call # NoCall /\ ~lighting) =>
        \A q \in FramePixels :
            px[q[1]][q[2]].draw =>
                canvas[q[1]][q[2]] =
                    earth[px[q[1]][q[2]].earth_y + 1][px[q[1]][q[2]].earth_x + 1]

\* An unlit call that wrote a cell whose day and night texels differ.
C6_Witness ==
    /\ call # NoCall
    /\ ~lighting
    /\ \E q \in FramePixels :
           /\ px[q[1]][q[2]].draw
           /\ px[q[1]][q[2]].day # px[q[1]][q[2]].night
           /\ canvas[q[1]][q[2]] = PALETTE[px[q[1]][q[2]].day + 1]

\* C7: with scale 0 render_frame writes no cell, for every width and height,
\* odd ones included.
C7_ZeroScaleDrawsNothing ==
    (call # NoCall /\ scale = 0) => canvas = Prefilled(call)

\* The texel of tex at the coordinates of pixel p is a character that is not
\* in the palette.
Foreign(tex, p) ==
    /\ TexelAt(tex, p.earth_y, p.earth_x) # <<>>
    /\ TexelAt(tex, p.earth_y, p.earth_x)[1] \notin Chars(PALETTE)

\* C8: when the day or the night texel sampled for a pixel is not a palette
\* character, the cell is left as the caller pre-filled it, and the call goes
\* on with the other pixels without an error.
C8_ForeignTexelSkipped ==
    call # NoCall =>
        /\ status = "ok"
        /\ \A q \in FramePixels :
               (/\ DiscAt(q[2], q[1]) >= 0
                /\ (Foreign(earth, px[q[1]][q[2]])
                    \/ Foreign(earth_night, px[q[1]][q[2]])))
                   => canvas[q[1]][q[2]] = call.fill

\* A call that skipped a pixel with a foreign texel and wrote another one.
C8_Witness ==
    /\ call # NoCall
    /\ status = "ok"
    /\ \E q \in FramePixels :
           /\ DiscAt(q[2], q[1]) >= 0
           /\ Foreign(earth, px[q[1]][q[2]])
           /\ canvas[q[1]][q[2]] = call.fill
    /\ \E q \in FramePixels :
           /\ DiscAt(q[2], q[1]) >= 0
           /\ Foreign(earth_night, px[q[1]][q[2]])
           /\ canvas[q[1]][q[2]] = call.fill
    /\ \E q \in FramePixels : canvas[q[1]][q[2]] # call.fill

\* The texel (x, y), counted from 0, exists in tex.
InTexture(tex, x, y) == y + 1 \in DOMAIN tex /\ x + 1 \in DOMAIN tex[y + 1]

\* C9: for every hit pixel 0 <= earth_x <= textureWidth - 1 and
\* 0 <= earth_y <= textureHeight - 1, the width being that of the first row
\* of the day texture; with rows of different lengths, or a night texture
\* smaller than the day texture, no texel is read where there is none.
C9_TexelInRange ==
    call # NoCall =>
        \A y \in DOMAIN px : \A x \in DOMAIN px[y] :
            DiscAt(x, y) >= 0 =>
                /\ 0 <= px[y][x].earth_x
                /\ px[y][x].earth_x <= Len(earth[1]) - 1
                /\ 0 <= px[y][x].earth_y
                /\ px[y][x].earth_y <= Len(earth) - 1
                /\ px[y][x].sampled =>
                       /\ InTexture(earth, px[y][x].earth_x, px[y][x].earth_y)
                       /\ InTexture(earth_night, px[y][x].earth_x,
                                    px[y][x].earth_y)

\* A call on a day texture with a short row, or on a night texture smaller
\* than the day texture, with a hit pixel whose texel does not exist.
C9_Witness ==
    /\ call # NoCall
    /\ \E y \in DOMAIN px : \E x \in DOMAIN px[y] :
           /\ DiscAt(x, y) >= 0
           /\ ~px[y][x].sampled
           /\ \/ ~InTexture(earth, px[y][x].earth_x, px[y][x].earth_y)
              \/ ~InTexture(earth_night, px[y][x].earth_x, px[y][x].earth_y)
    /\ \/ \E r \in DOMAIN earth : Len(earth[r]) # Len(earth[1])
       \/ Len(earth_night) < Len(earth)

\* C10: two render_frame calls with the same renderer state, the same width
\* and height and identically pre-filled grids, with no other operation in
\* between, produce the same grid.
C10_RenderRepeats == prev # <<>> => canvas = prev

\* The second of two such calls has written cells.
C10_Witness == prev # <<>> /\ canvas = prev /\ canvas # Prefilled(call)

\* C11: render_frame changes none of the rotation offset, scale, speed,
\* tilt, lighting flag and textures of the renderer (the camera is never
\* assigned after construction); update changes the rotation offset only.
\* A step that leaves a render_frame call as the last operation is a
\* render_frame step, a step of the ticking renderer that changes the
\* rotation offset is an update step.
C11_FrameEffect ==
    [][/\ (status = "ok" /\ call' # NoCall) => globe' = globe
       /\ (status = "ok" /\ angle_offset' # angle_offset) =>
              <<earth, earth_night, scale, speed, tilt, lighting>>' =
                  <<earth, earth_night, scale, speed, tilt, lighting>>]_vars

\* A frame drawn after update has moved the rotation offset.
C11_Witness ==
    /\ status = "ok"
    /\ angle_offset # 0
    /\ call # NoCall
    /\ canvas # Prefilled(call)

\* The scenario of C12 has been rendered: 4 x 4 textures of '@' and of ' ',
\* scale 1.0, lighting disabled, a grid of 10 x 10 cells.
Scenario ==
    /\ status = "ok"
    /\ earth = Day4
    /\ earth_night = Night4
    /\ scale = ONE
    /\ ~lighting
    /\ call.width = 10
    /\ call.height = 10

\* C12: for a renderer built from a 4 x 4 day texture of '@' and a 4 x 4
\* night texture of ' ', with scale 1.0 and lighting disabled, rendering a
\* 10 x 10 grid writes '@' into the four central cells and leaves the four
\* corner cells as the caller pre-filled them.
C12_Scenario ==
    Scenario =>
        /\ \A y \in {5, 6} : \A x \in {5, 6} : canvas[y][x] = "@"
        /\ \A y \in {1, 10} : \A x \in {1, 10} : canvas[y][x] = call.fill

\* The scenario has been rendered, at a rotation offset update has moved.
C12_Witness ==
    /\ Scenario
    /\ angle_offset # 0
    /\ canvas[5][5] = "@"
    /\ canvas[1][1] = "#"

\* The pixels render_sphere computes for the last call a full turn later.
TurnLater ==
    Pixels(camera, ONE, angle_offset + 2 * PI_CONST, earth, earth_night,
           scale, tilt, lighting, call.width, call.height)

\* C13: rendering with the rotation offset a and with a + 2 * PI, all other
\* inputs equal, chooses the same texture column for every hit pixel and
\* produces the same frame; a = 0 is one of the offsets.
C13_Periodic ==
    call # NoCall =>
        /\ TurnLater = px
        /\ Drawn(Prefilled(call), TurnLater, call.width, call.height) = canvas

\* A frame at offset 0 of a texture whose columns differ, with hit pixels in
\* different columns.
C13_Witness ==
    /\ call # NoCall
    /\ angle_offset = 0
    /\ earth = Day3
    /\ \E q \in FramePixels : \E r \in FramePixels :
           /\ px[q[1]][q[2]].draw
           /\ px[r[1]][r[2]].draw
           /\ px[q[1]][q[2]].earth_x # px[r[1]][r[2]].earth_x
           /\ canvas[q[1]][q[2]] # canvas[r[1]][r[2]]

\* The texture file has exactly one row of exactly one character.
OneByOne(file) ==
    file.readable /\ Len(file.lines) = 1 /\ Len(file.lines[1]) = 1

\* C14: day and night textures of one row and one column are accepted by
\* GlobeRenderer::new and by render_frame, and every hit pixel samples the
\* texel (0, 0) and is drawn from it.
C14_SingleTexel ==
    (OneByOne(dir.earth) /\ OneByOne(dir.night)) =>
        /\ status # "err"
        /\ call # NoCall =>
               \A q \in Cells(call) :
                   (InFrame(q[2], q[1]) /\ DiscAt(q[2], q[1]) >= 0) =>
                       /\ canvas[q[1]][q[2]] # call.fill
                       /\ px[q[1]][q[2]].sampled
                       /\ px[q[1]][q[2]].earth_x = 0
                       /\ px[q[1]][q[2]].earth_y = 0
                       /\ px[q[1]][q[2]].day = find_index(earth[1][1], PALETTE)

\* A frame of 1 x 1 textures with hit pixels in different rows and columns
\* of the grid.
C14_Witness ==
    /\ OneByOne(dir.earth)
    /\ OneByOne(dir.night)
    /\ call # NoCall
    /\ \E q \in Cells(call) : \E r \in Cells(call) :
           /\ q[1] # r[1]
           /\ q[2] # r[2]
           /\ InFrame(q[2], q[1]) /\ DiscAt(q[2], q[1]) >= 0
           /\ InFrame(r[2], r[1]) /\ DiscAt(r[2], r[1]) >= 0
           /\ canvas[q[1]][q[2]] = earth[1][1]
           /\ canvas[r[1]][r[2]] = earth[1][1]

\* C15: every character render_sphere writes into the grid is the palette
\* character at an index within 0 .. palette length - 1, for every luminance
\* and every pair of day and night texels of the palette.
C15_WritesPalette ==
    call # NoCall =>
        \A q \in Cells(call) :
            canvas[q[1]][q[2]] # call.fill =>
                /\ canvas[q[1]][q[2]] \in Chars(PALETTE)
                /\ px[q[1]][q[2]].index \in 0..(Len(PALETTE) - 1)
                /\ canvas[q[1]][q[2]] = PALETTE[px[q[1]][q[2]].index + 1]

\* A frame with cells written at the dimmest index, at the brightest index
\* and at an index between the night and the day index of the pixel.
C15_Witness ==
    /\ call # NoCall
    /\ \E q \in FramePixels :
           px[q[1]][q[2]].draw /\ canvas[q[1]][q[2]] = PALETTE[1]
    /\ \E q \in FramePixels :
           px[q[1]][q[2]].draw /\ canvas[q[1]][q[2]] = PALETTE[Len(PALETTE)]
    /\ \E q \in FramePixels :
           /\ px[q[1]][q[2]].draw
           /\ px[q[1]][q[2]].night < px[q[1]][q[2]].index
           /\ px[q[1]][q[2]].index < px[q[1]][q[2]].day

\* C16: the setters store their argument without validation: after
\* set_X(v), for zero, negative and extreme v, get_X() returns v, and the
\* other three parameters and the rotation offset are as before.
C16_SettersStore ==
    [][/\ \A v \in Extremes :
              SetScale(v) =>
                  /\ get_scale' = v
                  /\ UNCHANGED <<get_speed, get_tilt, get_lighting,
                                 angle_offset>>
       /\ \A v \in Extremes :
              SetSpeed(v) =>
                  /\ get_speed' = v
                  /\ UNCHANGED <<get_scale, get_tilt, get_lighting,
                                 angle_offset>>
       /\ \A v \in Extremes :
              SetTilt(v) =>
                  /\ get_tilt' = v
                  /\ UNCHANGED <<get_scale, get_speed, get_lighting,
                                 angle_offset>>
       /\ \A v \in BOOLEAN :
              SetLighting(v) =>
                  /\ get_lighting' = v
                  /\ UNCHANGED <<get_scale, get_speed, get_tilt,
                                 angle_offset>>]_vars

\* The setters have stored a negative scale, a zero speed and an extreme
\* tilt, have turned the lighting off, and the rotation offset is not 0.
C16_Witness ==
    /\ get_scale = -ONE
    /\ get_speed = 0
    /\ get_tilt = 1000000 * ONE
    /\ get_lighting = FALSE
    /\ angle_offset # 0

\* C17: normalize applied to the zero vector returns the zero vector, with
\* no division by the magnitude 0; applied to any other vector it returns a
\* vector of magnitude 1 (within the resolution of the fixed point).
C17_NormalizeZero ==
    vout # <<>> =>
        IF vin = <<0, 0, 0>> THEN vout = <<0, 0, 0>>
        ELSE Abs(magnitude(vout) - ONE) <= 2

\* normalize has returned for the zero vector.
C17_Witness == vin = <<0, 0, 0>> /\ vout = <<0, 0, 0>>

\* C18: Esc returns home from the submenus and quits from home: in state
\* Home it sets should_quit and leaves the state Home; in Apps, RecentFiles
\* and Settings it sets the state to Home and leaves should_quit as it was.
C18_Esc ==
    [][(\E created \in NewFiles : HandleKey("Esc", TRUE, created)) =>
           IF state = "Home"
           THEN should_quit' /\ state' = "Home"
           ELSE state' = "Home" /\ should_quit' = should_quit]_vars

\* The App has been to the submenus, has returned home and has quit there.
C18_Witness ==
    /\ state = "Home"
    /\ should_quit
    /\ settings_selection = Some(2)
    /\ app_selection = Middle(apps) + 1
    /\ launched = None

\* C19: after any sequence of keys the cursors are in range:
\* app_selection <= max(apps.len() - 1, 0), and settings_selection is
\* Some(i) with 0 <= i <= 4.
C19_CursorsInRange ==
    /\ app_selection >= 0
    /\ app_selection <= Max(Len(apps) - 1, 0)
    /\ settings_selection # None
    /\ settings_selection[1] \in 0..4

\* Both cursors stand on the last item of their list.
C19_Witness ==
    /\ app_selection = Len(apps) - 1
    /\ settings_selection = Some(4)
    /\ state = "Settings"

\* C20: whenever the App is in state RecentFiles, recent_selection is None
\* exactly when the list of recent files is empty, and Some(i) with
\* i < number of recent files otherwise, also after Enter or 'l' has moved
\* the opened file to the front of the list.
C20_RecentSelection ==
    state = "RecentFiles" =>
        /\ recent_selection = None <=> get_files(files) = <<>>
        /\ recent_selection # None =>
               /\ recent_selection[1] >= 0
               /\ recent_selection[1] < Len(get_files(files))

\* The file under a cursor that is not on the first item has been opened and
\* has moved to the front of the list.
C20_Witness ==
    /\ state = "RecentFiles"
    /\ recent_selection # None
    /\ recent_selection[1] > 0
    /\ launched = open_file(files[1])

\* The entries of the list other than path, in their order.
Others(list, path) == SelectSeq(list, LAMBDA e : e # path)

\* C21: the stored list always holds at most 20 entries with pairwise
\* distinct paths; add_file(p) for a text path p puts p at index 0, removes
\* the earlier entry for p, keeps the order of the other entries and drops
\* those beyond the 20th; add_file of a path that is not a text file leaves
\* the list as it is.
C21_RecentList ==
    [][/\ Len(files') <= 20
       /\ \A i \in DOMAIN files' : \A j \in DOMAIN files' :
              i # j => files'[i] # files'[j]
       /\ \A p \in Added(files) :
              AddFile(p) =>
                  IF to_lowercase(p.ext) \in TEXT_EXTENSIONS
                  THEN /\ files'[1] = p
                       /\ Tail(files') =
                              SubSeq(Others(files, p), 1,
                                     Min(Len(Others(files, p)), 19))
                  ELSE files' = files]_vars

\* A full list whose oldest further file has been dropped, with a file that
\* was added again at its front.
C21_Witness ==
    /\ Len(files) = 20
    /\ files[1] = PathBuf(<<"README", 0>>, "MD")
    /\ files[2] = Fresh(MaxFresh)
    /\ \A i \in DOMAIN files : files[i] # Fresh(1)

\* C22: the vim keys mirror the arrow keys and Enter: in every state of the
\* App, with every selection, 'j' yields the same App as Down and 'k' the
\* same as Up; in Apps, RecentFiles and Settings 'l' yields the same App,
\* the same launcher call and the same recent-files store as Enter, whether
\* the launcher succeeds or fails.
C22_VimKeys ==
    \A ok \in BOOLEAN : \A created \in NewFiles :
        /\ handle_key(App, "j", ok, created)
               = handle_key(App, "Down", ok, created)
        /\ handle_key(App, "k", ok, created)
               = handle_key(App, "Up", ok, created)
        /\ state # "Home" =>
               handle_key(App, "l", ok, created)
                   = handle_key(App, "Enter", ok, created)

\* In RecentFiles, with the cursor below the first file, after a file has
\* been opened: 'l' opens the file under the cursor and moves it to the
\* front of the store, j and k both move the cursor.
C22_Witness ==
    /\ state = "RecentFiles"
    /\ launched # None
    /\ recent_selection # None
    /\ recent_selection[1] > 0
    /\ recent_selection[1] < Len(files) - 1
    /\ \E created \in NewFiles :
           /\ handle_key(App, "l", TRUE, created).launched
                  = open_file(files[recent_selection[1] + 1])
           /\ handle_key(App, "l", TRUE, created).files # files
           /\ handle_key(App, "j", TRUE, created).recent_selection
                  # recent_selection
           /\ handle_key(App, "k", TRUE, created).recent_selection
                  # recent_selection


\* The history queues of SystemStats.
Histories ==
    {"cpu_samples", "temp_samples", "one_min_samples", "five_min_samples",
     "fifteen_min_samples", "used_samples", "free_samples", "usage_samples",
     "download_samples", "upload_samples"}

\* r is q, or q with one sample appended at the back, or that with the
\* oldest sample removed at the front.
Extended(q, r) ==
    \/ r = q
    \/ r # <<>> /\ SubSeq(r, 1, Len(r) - 1) = q
    \/ r # <<>> /\ q # <<>> /\ SubSeq(r, 1, Len(r) - 1) = Tail(q)

\* C23: a refresh leaves every history queue with at most max_samples = 60
\* entries, and changes a queue only by appending one sample at the back and
\* then, at most, removing the oldest sample at the front: the entries that
\* stay are the same and in the same order.
C23_Histories ==
    [][\A h \in Histories :
           /\ Len(stats'[h]) <= max_samples
           /\ Extended(stats[h], stats'[h])]_vars

\* A refresh has trimmed the full CPU, disk and network queues.
C23_Witness ==
    /\ Len(stats.cpu_samples) = max_samples
    /\ stats.cpu_samples[1] > 1
    /\ Len(stats.usage_samples) = max_samples
    /\ stats.usage_samples[1] > 1
    /\ Len(stats.download_samples) = max_samples
    /\ stats.download_samples[1] > 2
    /\ stats.upload_samples = stats.download_samples

\* C24: a view render leaves the globe's scale exactly as it found it, though
\* it renders the globe at 1.2 times that scale; so the scale never changes
\* over the frames.
C24_ScaleRestored ==
    [][(\E half \in Areas : RenderView(half[1], half[2]))
           => scale' = scale]_vars

\* A view has drawn the globe larger than the scale stored now would.
C24_Witness ==
    /\ call # NoCall
    /\ state = "Apps"
    /\ scale \in ConfigScales
    /\ px = GlobePixels(Enlarged(scale), call.width, call.height)
    /\ px # GlobePixels(scale, call.width, call.height)
    /\ canvas # Blank(call.width, call.height)

\* C25: the buffer render returns has height rows of width cells each, and
\* every cell render_sphere did not draw in that call is ' '.
C25_BufferFresh ==
    call # NoCall =>
        /\ Len(canvas) = call.height
        /\ \A y \in 1..call.height : Len(canvas[y]) = call.width
        /\ \A y \in 1..call.height : \A x \in 1..call.width :
               ~(y \in DOMAIN px /\ x \in DOMAIN px[y] /\ px[y][x].draw)
                   => canvas[y][x] = " "

\* A render into a buffer of other dimensions that drew some cells and left
\* others blank.
C25_Witness ==
    /\ call = Framed(4, 3)
    /\ \E y \in 1..3 : \E x \in 1..4 : canvas[y][x] # " "
    /\ \E y \in 1..3 : \E x \in 1..4 : canvas[y][x] = " "

\* The rows of the positions returned are pairwise distinct.
DistinctRows ==
    \A j, k \in DOMAIN positions :
        j # k => positions[j][2] # positions[k][2]

=============================================================================
